---------------------------- MODULE Spec2Model ----------------------------
(***************************************************************************)
(* Model of generate.py: batch synthesis of SSML rows of a CSV file into   *)
(* audio files through a remote text-to-speech call and an optional ffmpeg *)
(* conversion.                                                             *)
(*                                                                         *)
(* Text is modelled as a sequence of one-character strings, so that        *)
(* str.strip, str.split, str.replace, base64.b64decode and sorted are      *)
(* computed character by character.  Python's None is the value None.      *)
(* One run of main is a sequence of steps: the start-up checks, then one   *)
(* step per row of the dataset (a whole loop iteration), then the report.  *)
(***************************************************************************)
EXTENDS Integers, Sequences, FiniteSets, TLC

\* ------------------------------------------------------------------ bounds
\* Longest dataset (number of data rows) drawn from the row alphabet.
MaxRows == 2

\* ------------------------------------------------------------- text values
None == <<"<None>">>

Whitespace == {" ", "\t"}

\* Characters in code-point order (the ones that occur in identifiers).
AsciiOrder == <<"\t", " ", ",", "1", "2", "3", "5", "N", "e", "n", "o", "s", "t">>

Ord(c) == CHOOSE k \in 1..Len(AsciiOrder) : AsciiOrder[k] = c

\* str(x): the text of a cell; None prints as "None".
Str(x) == IF x = None THEN <<"N", "o", "n", "e">> ELSE x

\* (x or ""): None and "" both give "".
OrEmpty(x) == IF x = None \/ x = <<>> THEN <<>> ELSE x

RECURSIVE LStrip(_)
LStrip(s) == IF s # <<>> /\ Head(s) \in Whitespace THEN LStrip(Tail(s)) ELSE s

RECURSIVE RStrip(_)
RStrip(s) ==
  IF s # <<>> /\ s[Len(s)] \in Whitespace THEN RStrip(SubSeq(s, 1, Len(s) - 1)) ELSE s

\* str.strip()
Strip(s) == RStrip(LStrip(s))

\* str.replace(old, new) for single characters
Replace(s, old, new) == [k \in 1..Len(s) |-> IF s[k] = old THEN new ELSE s[k]]

\* str.split(): split on runs of whitespace, no empty parts. cur is the part
\* being collected.
RECURSIVE SplitFrom(_, _)
SplitFrom(s, cur) ==
  IF s = <<>> THEN (IF cur = <<>> THEN <<>> ELSE <<cur>>)
  ELSE IF Head(s) \in Whitespace
       THEN (IF cur = <<>> THEN <<>> ELSE <<cur>>) \o SplitFrom(Tail(s), <<>>)
       ELSE SplitFrom(Tail(s), Append(cur, Head(s)))

Split(s) == SplitFrom(s, <<>>)

Range(f) == {f[k] : k \in DOMAIN f}

\* Lexicographic order of Python strings (by code point; a prefix is smaller).
RECURSIVE LexLeq(_, _)
LexLeq(a, b) ==
  IF a = <<>> THEN TRUE
  ELSE IF b = <<>> THEN FALSE
  ELSE IF Head(a) = Head(b) THEN LexLeq(Tail(a), Tail(b))
  ELSE Ord(Head(a)) < Ord(Head(b))

\* sorted(list(S))
RECURSIVE Sorted(_)
Sorted(S) ==
  IF S = {} THEN <<>>
  ELSE LET least == CHOOSE x \in S : \A y \in S : LexLeq(x, y)
       IN <<least>> \o Sorted(S \ {least})

\* ------------------------------------------------------------- parse_ids
\* The optional identifier set: Python's None, or a set of strings.
NoIds == [is_none |-> TRUE, ids |-> {}]

SomeIds(S) == [is_none |-> FALSE, ids |-> S]

parse_ids_NoCommas(ids_arg) ==
  IF ids_arg = None \/ ids_arg = <<>> THEN NoIds
  ELSE LET parts0 == Split(ids_arg)
           parts  == {Strip(parts0[k]) : k \in 1..Len(parts0)} \ {<<>>}
       IN IF parts # {} THEN SomeIds(parts) ELSE NoIds

parse_ids(ids_arg) ==
  IF ids_arg = None \/ ids_arg = <<>> THEN NoIds
  ELSE LET parts0 == Split(Replace(ids_arg, ",", " "))
           parts  == {Strip(parts0[k]) : k \in 1..Len(parts0)} \ {<<>>}
       IN IF parts # {} THEN SomeIds(parts) ELSE NoIds

\* ------------------------------------------------------------- base64
B64Alphabet ==
  <<"A","B","C","D","E","F","G","H","I","J","K","L","M","N","O","P",
    "Q","R","S","T","U","V","W","X","Y","Z","a","b","c","d","e","f",
    "g","h","i","j","k","l","m","n","o","p","q","r","s","t","u","v",
    "w","x","y","z","0","1","2","3","4","5","6","7","8","9","+","/">>

B64Val(c) == IF c = "=" THEN 0 ELSE (CHOOSE k \in 1..64 : B64Alphabet[k] = c) - 1

\* The third byte of a full group is lost.
B64Group_DropsLast(g) ==
  LET n  == B64Val(g[1]) * 262144 + B64Val(g[2]) * 4096 + B64Val(g[3]) * 64 + B64Val(g[4])
      b1 == n \div 65536
      b2 == (n \div 256) % 256
  IN IF g[3] = "=" THEN <<b1>> ELSE <<b1, b2>>

\* One group of four characters: 24 bits, cut to the bytes the padding leaves.
B64Group(g) ==
  LET n  == B64Val(g[1]) * 262144 + B64Val(g[2]) * 4096 + B64Val(g[3]) * 64 + B64Val(g[4])
      b1 == n \div 65536
      b2 == (n \div 256) % 256
      b3 == n % 256
  IN IF g[3] = "=" THEN <<b1>>
     ELSE IF g[4] = "=" THEN <<b1, b2>>
     ELSE <<b1, b2, b3>>

\* base64.b64decode of a well-formed (padded) text
RECURSIVE b64decode(_)
b64decode(s) ==
  IF Len(s) < 4 THEN <<>>
  ELSE B64Group(SubSeq(s, 1, 4)) \o b64decode(SubSeq(s, 5, Len(s)))


\* ------------------------------------------------------------- files
OutDir == "out_audio"

TmpDir == "tmp"

Path(dir, name, ext) == [dir |-> dir, name |-> name, ext |-> ext]

\* outdir / f"{row_id}.{ext}"
OutPath_AlwaysWav(row_id, ext) == Path(OutDir, row_id, "wav")

OutPath(row_id, ext) == Path(OutDir, row_id, ext)

\* The file tempfile.mkstemp(suffix=".wav") creates.
TmpWavPath == Path(TmpDir, <<"t", "m", "p">>, "wav")

\* What a file holds: bytes a program wrote, or what ffmpeg made of its input
\* bytes under the given encoder arguments.
RawContent(bytes) == [by |-> "write", args |-> <<>>, data |-> bytes]

Encoded(args, bytes) == [by |-> "ffmpeg", args |-> args, data |-> bytes]

Truncated(args) == [by |-> "ffmpeg-partial", args |-> args, data |-> <<>>]

Put(fs, p, c) == [q \in (DOMAIN fs) \cup {p} |-> IF q = p THEN c ELSE fs[q]]

Remove(fs, p) == [q \in (DOMAIN fs) \ {p} |-> fs[q]]

NoFiles == [q \in {} |-> RawContent(<<>>)]

\* open(out_path, "ab"): appends to what the file holds.
write_direct_wav_Appends(fs, wav_bytes, out_path) ==
  IF out_path \in DOMAIN fs /\ fs[out_path].by = "write"
  THEN Put(fs, out_path, RawContent(fs[out_path].data \o wav_bytes))
  ELSE Put(fs, out_path, RawContent(wav_bytes))

\* open(out_path, "wb") truncates, then writes the bytes.
write_direct_wav(fs, wav_bytes, out_path) == Put(fs, out_path, RawContent(wav_bytes))

\* ------------------------------------------------------------- ffmpeg
FfmpegOutcomes == {"ok", "fail", "fail_partial"}

Cmd(input, codec, output) == [input |-> input, codec |-> codec, output |-> output]

\* The encoder arguments convert_wav_bytes_with_ffmpeg puts between the input
\* and the output path.
CodecArgs(fmt) ==
  IF fmt = "wav" THEN <<"-c:a", "pcm_s16le">>
  ELSE IF fmt = "mp3" THEN <<"-codec:a", "libmp3lame", "-q:a", "2">>
  ELSE <<"-codec:a", "libvorbis", "-q:a", "5">>

\* subprocess.run(["ffmpeg", "-y", "-i", input, ..., output], check=True):
\* on success the output holds the encoding of the input; a failing ffmpeg
\* leaves the output untouched or truncated.
ffmpeg_run(fs, cmd, outcome) ==
  IF outcome = "ok" THEN Put(fs, cmd.output, Encoded(cmd.codec, fs[cmd.input].data))
  ELSE IF outcome = "fail_partial" THEN Put(fs, cmd.output, Truncated(cmd.codec))
  ELSE fs

\* The output paths a command wrote to.
Wrote(cmd, outcome) == IF outcome = "fail" THEN <<>> ELSE <<cmd.output>>

\* The finally clause removes the temporary file only when ffmpeg succeeded.
convert_wav_bytes_with_ffmpeg_NoFinally(fs, wav_bytes, out_path, fmt, delete_temp, outcome) ==
  LET fs1 == Put(fs, TmpWavPath, RawContent(wav_bytes))
      cmd == Cmd(TmpWavPath, CodecArgs(fmt), out_path)
      fs2 == ffmpeg_run(fs1, cmd, outcome)
  IN [files |-> IF delete_temp /\ outcome = "ok" /\ TmpWavPath \in DOMAIN fs2
                THEN Remove(fs2, TmpWavPath) ELSE fs2,
      cmd   |-> cmd]

convert_wav_bytes_with_ffmpeg(fs, wav_bytes, out_path, fmt, delete_temp, outcome) ==
  LET fs1 == Put(fs, TmpWavPath, RawContent(wav_bytes))
      cmd == Cmd(TmpWavPath, CodecArgs(fmt), out_path)
      fs2 == ffmpeg_run(fs1, cmd, outcome)
  IN [files |-> IF delete_temp /\ TmpWavPath \in DOMAIN fs2
                THEN Remove(fs2, TmpWavPath) ELSE fs2,
      cmd   |-> cmd]

\* ------------------------------------------------------------- remote call
HTTP_OK == 200

StatusCodes == {HTTP_OK, 403, 500}

Chars4(a, b, c, d) == <<a, b, c, d>>

\* The "audioContent" of the service's answer: the same markup always gets the
\* same audio, different markup different audio.
AudioContent(ssml) ==
  IF ssml = <<"s">> THEN Chars4("A", "Q", "I", "D")
  ELSE IF ssml = <<"t">> THEN Chars4("/", "+", "8", "=")
  ELSE Chars4("g", "A", "=", "=")

\* synthesize_ssml_wav on a 200 answer
synthesize_ssml_wav(ssml) == b64decode(AudioContent(ssml))

\* ------------------------------------------------------------- inputs
Formats == {"wav", "mp3", "ogg"}

Lossy == {"mp3", "ogg"}

id_col == "id"

ssml_col == "ssml"

IdsArgs == {None, <<" ", ",">>, <<"2", ",", "5">>, <<"1", " ", "2">>}

ArgsSet ==
  [ids : IdsArgs, format : Formats, use_ffmpeg : BOOLEAN, delete_original_wav : BOOLEAN]

RawIds == {<<>>, <<"1">>, <<" ", "2">>}

RawSsml == {<<" ">>, <<"s">>, <<"t">>}

DataRows == {<<a, b>> : a \in RawIds, b \in RawSsml}

BoundedSeqs(S, n) == UNION {[1..k -> S] : k \in 0..n}

CsvFile(header, rows) == [exists |-> TRUE, header |-> header, rows |-> rows]

NoCsv == [exists |-> FALSE, header |-> <<>>, rows |-> <<>>]

GoodHeader == <<id_col, ssml_col>>

\* ids 1, 2, 3, each with markup
ExampleCsv ==
  CsvFile(GoodHeader, << <<<<"1">>, <<"s">>>>, <<<<"2">>, <<"t">>>>, <<<<"3">>, <<"s">>>> >>)

\* Rows shorter than the header: DictReader fills the missing cells with None.
ShortIdCsv == CsvFile(<<ssml_col, id_col>>, << <<<<"s">>>>, <<<<"t">>, <<"1">>>> >>)

ShortSsmlCsv == CsvFile(GoodHeader, << <<<<"1">>>>, <<<<"2">>, <<"s">>>> >>)

BadHeaderCsvs ==
  { CsvFile(<<>>, <<>>),
    CsvFile(<<id_col>>, << <<<<"1">>>> >>),
    CsvFile(<<ssml_col>>, << <<<<"s">>>> >>) }

Csvs ==
  {CsvFile(GoodHeader, rows) : rows \in BoundedSeqs(DataRows, MaxRows)}
    \cup {NoCsv, ExampleCsv, ShortIdCsv, ShortSsmlCsv} \cup BadHeaderCsvs

\* csv.DictReader: the cell under a column, None when the row is too short.
RowGet(header, row, col) ==
  LET k == CHOOSE j \in 1..Len(header) : header[j] = col
  IN IF k <= Len(row) THEN row[k] ELSE None

\* ------------------------------------------------------------- state
VARIABLES
  args,        \* the parsed command line
  csv,         \* the dataset file on disk
  dirs,        \* directories that exist
  files,       \* the files on disk: path -> content
  pc,          \* where main is
  exit_code,   \* the argument of sys.exit, once pc = "exit"
  exc,         \* the exception that left main, once pc = "raised"
  wanted_ids,  \* main's locals
  generated,
  skipped,
  seen_ids,
  i,           \* the number of the row the reader yields next
  not_found,   \* the identifiers the report lists as not found
  calls,       \* this run's requests to the remote service, in order
  cmds,        \* this run's ffmpeg conversions, in order
  written,     \* the paths this run wrote, in order
  startFiles,  \* the files on disk when this run started
  rerun        \* an earlier run over the same directory has completed

vars ==
  <<args, csv, dirs, files, pc, exit_code, exc, wanted_ids, generated, skipped,
    seen_ids, i, not_found, calls, cmds, written, startFiles, rerun>>

inputs == <<args, csv>>

locals == <<wanted_ids, generated, skipped, seen_ids, i, not_found>>

\* The exit status the shell sees: an exception that leaves main ends the
\* interpreter with status 1.
UncaughtStatus == 1

ExitStatus ==
  IF pc = "raised" THEN UncaughtStatus ELSE IF pc = "exit" THEN exit_code ELSE 0

Init ==
  /\ args \in ArgsSet
  /\ csv \in Csvs
  /\ dirs = {}
  /\ files = NoFiles
  /\ pc = "parse_ids"
  /\ exit_code = 0
  /\ exc = ""
  /\ wanted_ids = NoIds
  /\ generated = 0
  /\ skipped = 0
  /\ seen_ids = {}
  /\ i = 0
  /\ not_found = <<>>
  /\ calls = <<>>
  /\ cmds = <<>>
  /\ written = <<>>
  /\ startFiles = NoFiles
  /\ rerun = FALSE

\* sys.exit(code)
Exit(code) == pc' = "exit" /\ exit_code' = code /\ exc' = exc

\* raise: nothing in main catches it
Raise(type) == pc' = "raised" /\ exc' = type /\ exit_code' = exit_code

Goto(label) == pc' = label /\ exit_code' = exit_code /\ exc' = exc

\* ------------------------------------------------------------- start-up
ParseIds ==
  /\ pc = "parse_ids"
  /\ wanted_ids' = parse_ids(args.ids)
  /\ Goto("check_csv")
  /\ UNCHANGED <<inputs, dirs, files, generated, skipped, seen_ids, i, not_found,
                 calls, cmds, written, startFiles, rerun>>

CsvMissing_Continues ==
  /\ pc = "check_csv"
  /\ ~csv.exists
  /\ dirs' = dirs \cup {OutDir}
  /\ Goto("check_format")
  /\ UNCHANGED <<inputs, files, locals, calls, cmds, written, startFiles, rerun>>

CsvMissing ==
  /\ pc = "check_csv"
  /\ ~csv.exists
  /\ Exit(1)
  /\ UNCHANGED <<inputs, dirs, files, locals, calls, cmds, written, startFiles, rerun>>

\* outdir.mkdir(parents=True, exist_ok=True)
MakeOutdir ==
  /\ pc = "check_csv"
  /\ csv.exists
  /\ dirs' = dirs \cup {OutDir}
  /\ Goto("check_format")
  /\ UNCHANGED <<inputs, files, locals, calls, cmds, written, startFiles, rerun>>

LossyWithoutFfmpeg_Continues ==
  /\ pc = "check_format"
  /\ args.format \in Lossy
  /\ ~args.use_ffmpeg
  /\ Goto("check_ffmpeg")
  /\ UNCHANGED <<inputs, dirs, files, locals, calls, cmds, written, startFiles, rerun>>

LossyWithoutFfmpeg ==
  /\ pc = "check_format"
  /\ args.format \in Lossy
  /\ ~args.use_ffmpeg
  /\ Exit(2)
  /\ UNCHANGED <<inputs, dirs, files, locals, calls, cmds, written, startFiles, rerun>>

FormatAccepted ==
  /\ pc = "check_format"
  /\ ~(args.format \in Lossy /\ ~args.use_ffmpeg)
  /\ Goto("check_ffmpeg")
  /\ UNCHANGED <<inputs, dirs, files, locals, calls, cmds, written, startFiles, rerun>>

\* ffmpeg_exists(): whether "ffmpeg -version" can be run is the machine's affair.
FfmpegNotFound ==
  /\ pc = "check_ffmpeg"
  /\ args.use_ffmpeg
  /\ \E found \in BOOLEAN : ~found
  /\ Exit(3)
  /\ UNCHANGED <<inputs, dirs, files, locals, calls, cmds, written, startFiles, rerun>>

FfmpegReady ==
  /\ pc = "check_ffmpeg"
  /\ \E found \in BOOLEAN : args.use_ffmpeg => found
  /\ Goto("open_csv")
  /\ UNCHANGED <<inputs, dirs, files, locals, calls, cmds, written, startFiles, rerun>>

\* reader.fieldnames is empty: the file has no header row
HeaderEmpty ==
  /\ pc = "open_csv"
  /\ csv.header = <<>>
  /\ Raise("RuntimeError")
  /\ UNCHANGED <<inputs, dirs, files, locals, calls, cmds, written, startFiles, rerun>>

MissingColumn ==
  /\ pc = "open_csv"
  /\ csv.header # <<>>
  /\ ~({id_col, ssml_col} \subseteq Range(csv.header))
  /\ Raise("KeyError")
  /\ UNCHANGED <<inputs, dirs, files, locals, calls, cmds, written, startFiles, rerun>>

\* generated = 0, skipped = 0, seen_ids = set(); the reader is at the first row
BeginLoop ==
  /\ pc = "open_csv"
  /\ csv.header # <<>>
  /\ {id_col, ssml_col} \subseteq Range(csv.header)
  /\ generated' = 0
  /\ skipped' = 0
  /\ seen_ids' = {}
  /\ i' = 1
  /\ Goto("loop")
  /\ UNCHANGED <<inputs, dirs, files, wanted_ids, not_found, calls, cmds, written,
                 startFiles, rerun>>

\* ------------------------------------------------------------- the row loop
\* str(row.get(args.id_col, "")).strip()
RowId(k) == Strip(Str(RowGet(csv.header, csv.rows[k], id_col)))

\* (row.get(args.ssml_col) or "").strip()
RowSsml(k) == Strip(OrEmpty(RowGet(csv.header, csv.rows[k], ssml_col)))

Wanted(row_id) == IF wanted_ids.is_none THEN TRUE ELSE row_id \in wanted_ids.ids

AtRow == pc = "loop" /\ i <= Len(csv.rows)

\* The row reaches the call of synthesize_ssml_wav.
Submitted == AtRow /\ RowId(i) # <<>> /\ Wanted(RowId(i)) /\ RowSsml(i) # <<>>

Call(status) == [row |-> i, ssml |-> RowSsml(i), status |-> status]

SkipEmptyId_NotCounted ==
  /\ AtRow
  /\ RowId(i) = <<>>
  /\ i' = i + 1
  /\ UNCHANGED <<inputs, dirs, files, pc, exit_code, exc, wanted_ids, generated, skipped,
                 seen_ids, not_found, calls, cmds, written, startFiles, rerun>>

SkipEmptyId ==
  /\ AtRow
  /\ RowId(i) = <<>>
  /\ skipped' = skipped + 1
  /\ i' = i + 1
  /\ UNCHANGED <<inputs, dirs, files, pc, exit_code, exc, wanted_ids, generated,
                 seen_ids, not_found, calls, cmds, written, startFiles, rerun>>

SkipUnwanted ==
  /\ AtRow
  /\ RowId(i) # <<>>
  /\ ~Wanted(RowId(i))
  /\ seen_ids' = seen_ids \cup {RowId(i)}
  /\ i' = i + 1
  /\ UNCHANGED <<inputs, dirs, files, pc, exit_code, exc, wanted_ids, generated, skipped,
                 not_found, calls, cmds, written, startFiles, rerun>>

SkipEmptySsml ==
  /\ AtRow
  /\ RowId(i) # <<>>
  /\ Wanted(RowId(i))
  /\ RowSsml(i) = <<>>
  /\ seen_ids' = seen_ids \cup {RowId(i)}
  /\ skipped' = skipped + 1
  /\ i' = i + 1
  /\ UNCHANGED <<inputs, dirs, files, pc, exit_code, exc, wanted_ids, generated,
                 not_found, calls, cmds, written, startFiles, rerun>>

\* The failed request is swallowed and the loop goes on to the next row.
SynthFails_Continues ==
  /\ Submitted
  /\ \E status \in StatusCodes \ {HTTP_OK} :
       calls' = Append(calls, Call(status))
  /\ seen_ids' = seen_ids \cup {RowId(i)}
  /\ i' = i + 1
  /\ UNCHANGED <<inputs, dirs, files, pc, exit_code, exc, wanted_ids, generated, skipped,
                 not_found, cmds, written, startFiles, rerun>>

\* r.status_code != 200: synthesize_ssml_wav raises RuntimeError
SynthFails ==
  /\ Submitted
  /\ \E status \in StatusCodes \ {HTTP_OK} :
       calls' = Append(calls, Call(status))
  /\ seen_ids' = seen_ids \cup {RowId(i)}
  /\ Raise("RuntimeError")
  /\ UNCHANGED <<inputs, dirs, files, wanted_ids, generated, skipped, i, not_found,
                 cmds, written, startFiles, rerun>>

\* What is common to the rows whose request succeeds.
Synthesized ==
  /\ Submitted
  /\ calls' = Append(calls, Call(HTTP_OK))
  /\ seen_ids' = seen_ids \cup {RowId(i)}
  /\ UNCHANGED <<inputs, dirs, wanted_ids, skipped, not_found, startFiles, rerun>>

\* generated += 1 and on to the next row, or the transcoder's
\* CalledProcessError leaves main
RowEnds(ok) ==
  IF ok THEN generated' = generated + 1 /\ i' = i + 1 /\ Goto("loop")
  ELSE generated' = generated /\ i' = i /\ Raise("CalledProcessError")

\* format wav without ffmpeg
WriteDirect ==
  /\ Synthesized
  /\ args.format = "wav"
  /\ ~args.use_ffmpeg
  /\ files' = write_direct_wav(files, synthesize_ssml_wav(RowSsml(i)), OutPath(RowId(i), "wav"))
  /\ written' = Append(written, OutPath(RowId(i), "wav"))
  /\ cmds' = cmds
  /\ RowEnds(TRUE)

\* format wav through ffmpeg
ConvertWav ==
  /\ Synthesized
  /\ args.format = "wav"
  /\ args.use_ffmpeg
  /\ \E outcome \in FfmpegOutcomes :
       LET r == convert_wav_bytes_with_ffmpeg(files, synthesize_ssml_wav(RowSsml(i)),
                                              OutPath(RowId(i), "wav"), "wav", TRUE, outcome)
       IN /\ files' = r.files
          /\ cmds' = Append(cmds, r.cmd)
          /\ written' = written \o Wrote(r.cmd, outcome)
          /\ RowEnds(outcome = "ok")

\* mp3/ogg with --delete-original-wav
ConvertLossy ==
  /\ Synthesized
  /\ args.format \in Lossy
  /\ args.delete_original_wav
  /\ \E outcome \in FfmpegOutcomes :
       LET r == convert_wav_bytes_with_ffmpeg(files, synthesize_ssml_wav(RowSsml(i)),
                                              OutPath(RowId(i), args.format), args.format,
                                              TRUE, outcome)
       IN /\ files' = r.files
          /\ cmds' = Append(cmds, r.cmd)
          /\ written' = written \o Wrote(r.cmd, outcome)
          /\ RowEnds(outcome = "ok")

\* mp3/ogg keeping the intermediate wav
KeepIntermediate ==
  /\ Synthesized
  /\ args.format \in Lossy
  /\ ~args.delete_original_wav
  /\ \E outcome \in FfmpegOutcomes :
       LET intermediate_wav == OutPath(RowId(i), "wav")
           out_path == OutPath(RowId(i), args.format)
           fs1 == write_direct_wav(files, synthesize_ssml_wav(RowSsml(i)), intermediate_wav)
           cmd == Cmd(intermediate_wav, <<>>, out_path)
       IN /\ files' = ffmpeg_run(fs1, cmd, outcome)
          /\ cmds' = Append(cmds, cmd)
          /\ written' = Append(written, intermediate_wav) \o Wrote(cmd, outcome)
          /\ RowEnds(outcome = "ok")

\* ------------------------------------------------------------- the report
Report ==
  /\ pc = "loop"
  /\ i > Len(csv.rows)
  /\ not_found' = IF wanted_ids.is_none THEN <<>> ELSE Sorted(wanted_ids.ids \ seen_ids)
  /\ Goto("done")
  /\ UNCHANGED <<inputs, dirs, files, wanted_ids, generated, skipped, seen_ids, i,
                 calls, cmds, written, startFiles, rerun>>

\* The program is started again with the same command line, dataset and
\* output directory.
Rerun ==
  /\ pc = "done"
  /\ Goto("parse_ids")
  /\ wanted_ids' = NoIds
  /\ generated' = 0
  /\ skipped' = 0
  /\ seen_ids' = {}
  /\ i' = 0
  /\ not_found' = <<>>
  /\ calls' = <<>>
  /\ cmds' = <<>>
  /\ written' = <<>>
  /\ startFiles' = files
  /\ rerun' = TRUE
  /\ UNCHANGED <<inputs, dirs, files>>

Next ==
  \/ ParseIds
  \/ CsvMissing
  \/ MakeOutdir
  \/ LossyWithoutFfmpeg
  \/ FormatAccepted
  \/ FfmpegNotFound
  \/ FfmpegReady
  \/ HeaderEmpty
  \/ MissingColumn
  \/ BeginLoop
  \/ SkipEmptyId
  \/ SkipUnwanted
  \/ SkipEmptySsml
  \/ SynthFails
  \/ WriteDirect
  \/ ConvertWav
  \/ ConvertLossy
  \/ KeepIntermediate
  \/ Report
  \/ Rerun

Spec == Init /\ [][Next]_vars

\* =========================================================================
\* What the claims speak of, stated apart from the program's own operators.

Separators == Whitespace \cup {","}

\* The identifiers a filter text asks for: its maximal runs of characters
\* that are neither commas nor whitespace.
Requested(ids_arg) ==
  IF ids_arg = None THEN {}
  ELSE LET n == Len(ids_arg)
           runs == {ab \in (1..n) \X (1..n) :
                      /\ ab[1] <= ab[2]
                      /\ \A k \in ab[1]..ab[2] : ids_arg[k] \notin Separators
                      /\ (ab[1] = 1 \/ ids_arg[ab[1] - 1] \in Separators)
                      /\ (ab[2] = n \/ ids_arg[ab[2] + 1] \in Separators)}
       IN {SubSeq(ids_arg, ab[1], ab[2]) : ab \in runs}

\* Whether an identifier passes the filter asking for the identifiers req.
Passes(req, id) == req = {} \/ id \in req

InFilter(id) == Passes(Requested(args.ids), id)

Blank(s) == \A k \in 1..Len(s) : s[k] \in Whitespace

\* s without its leading and trailing whitespace
Trim(s) ==
  IF Blank(s) THEN <<>>
  ELSE LET inked == {k \in 1..Len(s) : s[k] \notin Whitespace}
           a == CHOOSE k \in inked : \A j \in inked : k <= j
           b == CHOOSE k \in inked : \A j \in inked : j <= k
       IN SubSeq(s, a, b)

\* The identifier and the markup of row k, trimmed. A cell missing from a
\* short row reads as the identifier "None" and as empty markup.
IdOf(k) == Trim(Str(RowGet(csv.header, csv.rows[k], id_col)))

MarkupOf(k) == Trim(OrEmpty(RowGet(csv.header, csv.rows[k], ssml_col)))

RowNums == 1..Len(csv.rows)

\* The row loop of this run has begun.
Started == i >= 1

\* A row failed: an exception left the row loop.
RowFailed == pc = "raised" /\ i >= 1

ValidRow(k) == IdOf(k) # <<>> /\ MarkupOf(k) # <<>>

SelectedRow(k) == ValidRow(k) /\ InFilter(IdOf(k))

KeepsWav == args.format \in Lossy /\ ~args.delete_original_wav

\* RFC 4648 decodings of the audio payloads the service answers with.
Decoded(b64) ==
  IF b64 = <<"A", "Q", "I", "D">> THEN <<1, 2, 3>>
  ELSE IF b64 = <<"/", "+", "8", "=">> THEN <<255, 239>>
  ELSE <<128>>

CallRows == {calls[n].row : n \in 1..Len(calls)}

\* ------------------------------------------------------------------ C1
RECURSIVE OneFilePerValidRow(_)
OneFilePerValidRow(n) ==
  IF n = 0 THEN <<>>
  ELSE OneFilePerValidRow(n - 1)
         \o (IF ValidRow(n) THEN <<Path(OutDir, IdOf(n), args.format)>> ELSE <<>>)

RECURSIVE FilesPerSelectedRow(_)
FilesPerSelectedRow(n) ==
  IF n = 0 THEN <<>>
  ELSE FilesPerSelectedRow(n - 1)
         \o (IF ~SelectedRow(n) THEN <<>>
             ELSE IF KeepsWav
                  THEN <<Path(OutDir, IdOf(n), "wav"), Path(OutDir, IdOf(n), args.format)>>
                  ELSE <<Path(OutDir, IdOf(n), args.format)>>)

\* C1 as stated: in a run that completes, every row with a non-empty
\* identifier and non-empty markup has exactly one file written, at
\* outdir/id.format, and the directory holds nothing else.
C1_Original ==
  pc = "done" =>
    /\ written = OneFilePerValidRow(Len(csv.rows))
    /\ DOMAIN files = Range(OneFilePerValidRow(Len(csv.rows)))

\* C1 amended: in a run that completes, the writes are, row by row in file
\* order and only for the rows the identifier filter selects, the file
\* outdir/id.format, preceded by outdir/id.wav when a lossy format is produced
\* without --delete-original-wav; the run counts one generated file per such
\* row and the directory holds these files and nothing else.
C1_Amended ==
  pc = "done" =>
    /\ written = FilesPerSelectedRow(Len(csv.rows))
    /\ DOMAIN files = Range(written)
    /\ generated = Cardinality({k \in RowNums : SelectedRow(k)})

C1_Witness ==
  /\ pc = "done"
  /\ KeepsWav
  /\ generated >= 1
  /\ \E k \in RowNums : ValidRow(k) /\ ~SelectedRow(k)

\* ------------------------------------------------------------------ C2
NeverSubmitsEmpty == \A k \in CallRows : ValidRow(k)

\* C2 as stated: no row with an empty identifier or empty markup is submitted
\* to the remote call, and the final skipped count is the number of such rows.
C2_Original ==
  Started =>
    /\ NeverSubmitsEmpty
    /\ pc = "done" =>
         skipped = Cardinality({k \in RowNums : IdOf(k) = <<>> \/ MarkupOf(k) = <<>>})

\* C2 amended: no row with an empty identifier or empty markup is submitted,
\* and after every row the skipped count is the number of rows read so far
\* whose identifier is empty, or whose identifier is non-empty and passes the
\* filter while the markup is empty.
C2_Amended ==
  Started =>
    /\ NeverSubmitsEmpty
    /\ LET req == Requested(args.ids)
       IN skipped = Cardinality({k \in RowNums :
                      /\ k < i
                      /\ \/ IdOf(k) = <<>>
                         \/ (Passes(req, IdOf(k)) /\ MarkupOf(k) = <<>>)})

C2_Witness ==
  /\ pc = "done"
  /\ skipped = 1
  /\ \E k \in RowNums : IdOf(k) = <<>>
  /\ \E k \in RowNums : IdOf(k) # <<>> /\ ~InFilter(IdOf(k)) /\ MarkupOf(k) = <<>>

\* ------------------------------------------------------------------ C3
\* C3: requests and writes happen only for rows whose identifier the filter
\* names, every row is eligible without a filter, each eligible row read so far
\* was submitted, and the report lists exactly the requested identifiers that
\* are the identifier of no row; filter "2,5" over ids 1, 2, 3 submits only
\* row 2 and reports only 5.
C3_Selective ==
  /\ Started =>
       LET req == Requested(args.ids)
       IN /\ \A k \in CallRows : Passes(req, IdOf(k))
          /\ \A n \in 1..Len(written) : Passes(req, written[n].name)
          /\ CallRows = {k \in RowNums :
                           /\ k < i \/ (k = i /\ RowFailed)
                           /\ ValidRow(k)
                           /\ Passes(req, IdOf(k))}
  /\ pc = "done" =>
       /\ Range(not_found) =
            Requested(args.ids) \ {IdOf(k) : k \in {j \in RowNums : IdOf(j) # <<>>}}
       /\ Len(not_found) = Cardinality(Range(not_found))
  /\ (pc = "done" /\ args.ids = <<"2", ",", "5">> /\ csv = ExampleCsv) =>
       /\ CallRows = {2}
       /\ not_found = << <<"5">> >>

C3_Witness ==
  /\ pc = "done"
  /\ args.ids = <<"2", ",", "5">>
  /\ csv = ExampleCsv
  /\ generated = 1

\* ------------------------------------------------------------------ C4
\* C4: with a lossy format and no --use-ffmpeg the run never gets past the
\* format check, ends in sys.exit (1 for a missing dataset, else 2), and makes
\* no remote call and writes no file.
C4_NoCallWithoutTranscoder ==
  (args.format \in Lossy /\ ~args.use_ffmpeg) =>
    /\ calls = <<>>
    /\ written = <<>>
    /\ pc \in {"parse_ids", "check_csv", "check_format", "exit"}
    /\ pc = "exit" => exit_code = (IF csv.exists THEN 2 ELSE 1)

C4_Witness ==
  /\ pc = "exit"
  /\ exit_code = 2
  /\ csv.header = GoodHeader
  /\ \E k \in RowNums : ValidRow(k)

\* ------------------------------------------------------------------ C5
HeaderLacksColumn ==
  csv.exists /\ csv.header # <<>> /\ ~({id_col, ssml_col} \subseteq Range(csv.header))

ConfigFailed == pc = "exit" \/ (pc = "raised" /\ i = 0)

ExitCodes ==
  /\ ConfigFailed => (calls = <<>> /\ written = <<>> /\ files = startFiles)
  /\ ~csv.exists => pc \in {"parse_ids", "check_csv", "exit"}
  /\ pc = "exit" => exit_code \in {1, 2, 3}
  /\ (pc = "exit" /\ exit_code = 1) => ~csv.exists
  /\ (pc = "exit" /\ exit_code = 2) => (csv.exists /\ args.format \in Lossy /\ ~args.use_ffmpeg)
  /\ (pc = "exit" /\ exit_code = 3) =>
       (csv.exists /\ args.use_ffmpeg /\ dirs = {OutDir})
  /\ HeaderLacksColumn => pc \notin {"loop", "done"}

\* C5 as stated: every configuration error ends the run before any row is
\* processed; the exit code is 1, 2 or 3 by cause, and a header lacking a column
\* ends with an exit status that is none of these.
C5_Original ==
  /\ ExitCodes
  /\ (HeaderLacksColumn /\ pc = "raised") => ExitStatus \notin {1, 2, 3}

\* C5 amended: every configuration error ends the run before any row is
\* processed; the exit code is 1, 2 or 3 by cause, and a header lacking a column
\* ends with an uncaught KeyError, whose exit status 1 is the one of a missing
\* dataset.
C5_Amended ==
  /\ ExitCodes
  /\ (HeaderLacksColumn /\ pc = "raised") => (exc = "KeyError" /\ i = 0 /\ ExitStatus = 1)

C5_Witness == HeaderLacksColumn /\ pc = "raised" /\ args.use_ffmpeg

\* ------------------------------------------------------------------ C6
\* The last successful request for the identifier of request n is request n.
LatestFor(n) ==
  /\ calls[n].status = 200
  /\ \A m \in (n + 1)..Len(calls) :
       calls[m].status = 200 => IdOf(calls[m].row) # IdOf(calls[n].row)

\* C6: for format wav without ffmpeg, ffmpeg is never run, and the file
\* outdir/id.wav of every processed row holds exactly the bytes the base64
\* payload of that row's (latest) answer decodes to.
C6_WavRoundTrip ==
  (args.format = "wav" /\ ~args.use_ffmpeg) =>
    /\ cmds = <<>>
    /\ \A n \in 1..Len(calls) :
         LatestFor(n) =>
           LET p == Path(OutDir, IdOf(calls[n].row), "wav")
           IN /\ p \in DOMAIN files
              /\ files[p].by = "write"
              /\ files[p].data = Decoded(AudioContent(calls[n].ssml))

C6_Witness ==
  /\ args.format = "wav"
  /\ ~args.use_ffmpeg
  /\ pc = "done"
  /\ generated = 2
  /\ \E n \in 1..Len(calls) : ~LatestFor(n)

\* ------------------------------------------------------------------ C7
\* C7: a run that completes over the directory an earlier completed run of the
\* same command left behind writes only paths that were there and leaves every
\* file as it was, also when an identifier occurs on several rows.
C7_RerunIdempotent ==
  (rerun /\ pc = "done") =>
    /\ files = startFiles
    /\ Range(written) \subseteq DOMAIN startFiles

C7_Witness ==
  /\ rerun
  /\ pc = "done"
  /\ \E j \in RowNums : \E k \in RowNums :
       j < k /\ SelectedRow(j) /\ SelectedRow(k) /\ IdOf(j) = IdOf(k)
          /\ MarkupOf(j) # MarkupOf(k)

\* ------------------------------------------------------------------ C8
\* Every processed row made one request, in file order; a failed row is the
\* last one submitted.
OneRequestPerRow ==
  /\ \A n \in 1..Len(calls) : \A m \in 1..Len(calls) : n < m => calls[n].row < calls[m].row
  /\ Len(calls) = generated + (IF RowFailed THEN 1 ELSE 0)
  /\ RowFailed => calls[Len(calls)].row = i

FailingStep == pc = "loop" /\ pc' = "raised"

\* C8 as stated: each processed row issues one request; a failing row raises
\* out of the loop, nothing runs after it, a failed request writes nothing, and
\* every file on disk before the failing row is unchanged after it.
C8_Original ==
  [][ /\ OneRequestPerRow'
      /\ pc = "raised" => UNCHANGED vars
      /\ FailingStep =>
           /\ calls'[Len(calls')].status # 200 => (files' = files /\ written' = written)
           /\ \A p \in DOMAIN files : p \in DOMAIN files' /\ files'[p] = files[p]
    ]_vars

\* C8 amended: each processed row issues one request; a failing row raises out
\* of the loop, nothing runs after it, a failed request writes nothing, and
\* after a transcoder failure every file on disk before the failing row is
\* unchanged except the files named after the failing row's own identifier
\* (which an earlier row with the same identifier may have written).
C8_Amended ==
  [][ /\ OneRequestPerRow'
      /\ pc = "raised" => UNCHANGED vars
      /\ FailingStep =>
           /\ calls'[Len(calls')].status # 200 => (files' = files /\ written' = written)
           /\ \A p \in DOMAIN files :
                p.name # IdOf(i) => (p \in DOMAIN files' /\ files'[p] = files[p])
    ]_vars

C8_Witness ==
  /\ RowFailed
  /\ exc = "CalledProcessError"
  /\ generated >= 1
  /\ \E j \in RowNums : j < i /\ SelectedRow(j) /\ IdOf(j) = IdOf(i)

\* ------------------------------------------------------------------ C9
\* The argument template of each target encoding.
Template(ext) ==
  IF ext = "wav" THEN <<"-c:a", "pcm_s16le">>
  ELSE IF ext = "mp3" THEN <<"-codec:a", "libmp3lame", "-q:a", "2">>
  ELSE <<"-codec:a", "libvorbis", "-q:a", "5">>

\* C9: every ffmpeg conversion of a run carries the encoder arguments of the
\* encoding of its output file.
C9_FixedTemplates ==
  \A n \in 1..Len(cmds) : cmds[n].codec = Template(cmds[n].output.ext)

\* ------------------------------------------------------------------ C10
\* C10: between rows and after the run, whether ffmpeg succeeded or failed, no
\* temporary file is on disk; a wav file beside a lossy output exists only when
\* --delete-original-wav was not given, and it is outdir/id.wav holding the raw
\* synthesized bytes of a row with that identifier.
C10_Cleanup ==
  /\ \A p \in DOMAIN files : p.dir = OutDir
  /\ args.format \in Lossy =>
       \A p \in DOMAIN files :
         p.ext = "wav" =>
           /\ ~args.delete_original_wav
           /\ files[p].by = "write"
           /\ \E k \in RowNums :
                SelectedRow(k) /\ IdOf(k) = p.name
                  /\ files[p].data = Decoded(AudioContent(MarkupOf(k)))

C10_Witness ==
  /\ RowFailed
  /\ exc = "CalledProcessError"
  /\ args.use_ffmpeg
  /\ args.format \in Lossy
  /\ args.delete_original_wav
  /\ generated >= 1
=============================================================================
